---- MODULE Spec2Model ----
(***************************************************************************)
(* Website summarizer (src/app.py): the fetch -> extract -> prompt -> LLM  *)
(* pipeline, the history store with its JSON backing file, the batch       *)
(* runner and the UI handlers, as a state machine.                         *)
(*                                                                         *)
(* Strings the code branches on are sequences of tokens, so that           *)
(* str.startswith is a test of the first token.  The failure glyph (the    *)
(* cross mark the code puts in front of every error string) is the token   *)
(* Glyph.  Python's None is the token None.                                *)
(***************************************************************************)
EXTENDS Naturals, Sequences, FiniteSets, TLC

\* ---------------------------------------------------------------- bounds
MaxSaves == 2         \* SpecStore: records saved over one behaviour
MaxLines == 2         \* SpecBatch: lines of a batch input
MaxBatchSaves == 1    \* SpecBatch: records saved over one behaviour
MaxSavesAll == 1      \* Spec: records saved over one behaviour
MaxLinesAll == 1      \* Spec: lines of a batch input

\* ------------------------------------------------------- program constants
TextLimit == 8000

Glyph == "(x)"
None == "None"
SUMMARIES_FILE == "summaries_history.json"

Min(a, b) == IF a <= b THEN a ELSE b
Last(s) == s[Len(s)]
Range(s) == {s[k] : k \in 1..Len(s)}

\* str.startswith(prefix) on token sequences
StartsWith(s, prefix) == Len(s) >= 1 /\ s[1] = prefix

\* Mutant: every returned string counts as a summary.
is_success_always(summary) == TRUE

\* `not summary.startswith(glyph)`: the handlers' test for a summary to save
is_success(summary) == ~StartsWith(summary, Glyph)

\* f"(x) **Error**: {msg}"
ErrorString(msg) == <<Glyph, "**Error**:", msg>>

\* ------------------------------------------------------------ environment
\* What requests.get and the server can answer to one GET: an exception of
\* requests (connection, timeout, HTTP status), or an HTML document with or
\* without a <title>, with or without a <body>, whose body holds text_len
\* characters of text once stripped.
Response(get, title, has_body, text_len) ==
    [get |-> get, title |-> title, has_body |-> has_body, text_len |-> text_len]

AllResponses ==
    {Response("raises", "absent", FALSE, 0)}
    \cup {Response("ok", t, FALSE, 0) : t \in {"absent", "empty", "Example"}}
    \cup {Response("ok", t, TRUE, n) : t \in {"absent", "empty", "Example"},
                                       n \in {0, 120, TextLimit, TextLimit + 1500}}

\* The answers the handlers of the program specification draw from.
Responses ==
    { Response("raises", "absent", FALSE, 0),
      Response("ok", "Example", TRUE, 0),
      Response("ok", "Example", TRUE, 120) }

\* What chat.send_message / response.text can do: raise, or return a text.
LLMReply(raises, text) == [raises |-> raises, text |-> text]

AllReplies ==
    { LLMReply(TRUE, <<>>),
      LLMReply(FALSE, <<"Summary">>),
      LLMReply(FALSE, <<>>),
      LLMReply(FALSE, <<Glyph, "Summary">>) }

Replies ==
    { LLMReply(TRUE, <<>>),
      LLMReply(FALSE, <<"Summary">>),
      LLMReply(FALSE, <<Glyph, "Summary">>) }

URLs == {"u1", "u2"}

RecognizedStyles == {"short", "detailed", "bullet_points"}
EnumStyles == RecognizedStyles \cup {"default"}
AllStyles == EnumStyles \cup {"fancy"}
RequestStyles == {"short", "fancy"}
Omitted == "<omitted>"
DefaultStyle == "short"

\* ---------------------------------------------------------------- Website
\* Website.__init__: title, text (its stripped length) and error of a page.
Website(resp) ==
    IF resp.get = "raises"
    THEN [title |-> "Unknown Title", text |-> 0,
          error |-> "Failed to fetch website"]
    ELSE LET title == IF resp.title = "absent" THEN "No title found"
                      ELSE IF resp.title = "empty" THEN None
                      ELSE resp.title
         IN  IF ~resp.has_body
             THEN [title |-> title, text |-> 0,
                   error |-> "Error processing website"]
             ELSE [title |-> title, text |-> resp.text_len, error |-> None]

\* ---------------------------------------------------------- prompt builder
base_prompt == "You are an assistant that analyzes the contents of a website"

create_system_prompt(summary_type) ==
    IF summary_type = "short"
    THEN <<base_prompt, "Respond with a short summary in markdown.">>
    ELSE IF summary_type = "detailed"
    THEN <<base_prompt, "Respond with a detailed summary in markdown">>
    ELSE IF summary_type = "bullet_points"
    THEN <<base_prompt, "Respond with a bullet-point summary in markdown">>
    ELSE <<base_prompt, "Respond in markdown.">>

\* The user prompt: the title line, the fixed instructions, text[:8000].
user_prompt(website) ==
    <<"You are looking at a website titled", website.title,
      "please provide a summary of this website in markdown",
      Min(website.text, TextLimit)>>

\* The GenerativeModel built at import time (lines 17-21): None without a
\* key; with one, a model constructed with no system_instruction.
Model(key) == IF key THEN "models/gemini-2.5-flash-lite" ELSE None
ModelSystemInstruction == <<>>

NoRequest == [system_instruction |-> <<>>, history |-> <<>>, message |-> <<>>]

\* model.start_chat(history=[]) followed by chat.send_message(prompt)
ChatRequest(prompt) ==
    [system_instruction |-> ModelSystemInstruction,
     history |-> <<>>,
     message |-> prompt]

\* -------------------------------------------------------------- Summarizer
\* What a call gives its caller: it raised, or returned value; sent is the
\* request that went to the LLM, fetched the number of GETs it made.
Returned(value, sent, fetched) ==
    [raised |-> FALSE, value |-> value, sent |-> sent, fetched |-> fetched]
Raised(sent, fetched) ==
    [raised |-> TRUE, value |-> <<>>, sent |-> sent, fetched |-> fetched]

\* Mutant: no try/except around the pipeline, no test for blank text.
summarize_website_unguarded(key, resp, reply, summary_type) ==
    IF ~key
    THEN Returned(ErrorString("No Gemini API key found"), NoRequest, 0)
    ELSE LET website == Website(resp)
             request == ChatRequest(user_prompt(website))
         IN  IF website.error # None
             THEN Returned(ErrorString(website.error), NoRequest, 1)
             ELSE IF reply.raises
             THEN Raised(request, 1)
             ELSE Returned(reply.text, request, 1)

summarize_website(key, resp, reply, summary_type) ==
    IF ~key
    THEN Returned(ErrorString("No Gemini API key found"), NoRequest, 0)
    ELSE IF Model(key) = None
    THEN Returned(ErrorString("Failed to initialize Gemini model"), NoRequest, 0)
    ELSE LET website == Website(resp)
             system_prompt == create_system_prompt(summary_type)
             request == ChatRequest(user_prompt(website))
         IN  IF website.error # None
             THEN Returned(ErrorString(website.error), NoRequest, 1)
             ELSE IF website.text = 0
             THEN Returned(ErrorString("No content could be extracted"),
                           NoRequest, 1)
             ELSE IF reply.raises
             THEN Returned(ErrorString("Failed to generate summary"),
                           request, 1)
             ELSE Returned(reply.text, request, 1)

\* ----------------------------------------------------------- History Store
\* The backing file: absent, or present with content that parses as JSON
\* (data: the array of objects) or does not (a write that stopped midway).
AbsentFile == [exists |-> FALSE, valid |-> FALSE, data |-> <<>>]
BrokenFile == [exists |-> TRUE, valid |-> FALSE, data |-> <<>>]

JsonString(v) == [type |-> "string", value |-> v]
JsonNull == [type |-> "null", value |-> None]

\* json.dump of one record / of the list
JsonDumpRecord(r) ==
    [url |-> JsonString(r.url),
     summary |-> [type |-> "string", value |-> r.summary],
     summary_type |-> JsonString(r.summary_type),
     timestamp |-> [type |-> "string", value |-> r.timestamp],
     title |-> IF r.title = None THEN JsonNull ELSE JsonString(r.title)]
JsonDump(history) == [k \in 1..Len(history) |-> JsonDumpRecord(history[k])]

\* json.load
JsonLoadRecord(o) ==
    [url |-> o.url.value,
     summary |-> o.summary.value,
     summary_type |-> o.summary_type.value,
     timestamp |-> o.timestamp.value,
     title |-> IF o.title.type = "null" THEN None ELSE o.title.value]
JsonLoad(data) == [k \in 1..Len(data) |-> JsonLoadRecord(data[k])]

\* open(SUMMARIES_FILE, 'w') and json.dump: open raises and the file is
\* untouched; open truncates and dump raises midway; or the write completes.
WriteOutcomes == {"written", "open_raises", "dump_raises"}
WriteFile(f, history, w) ==
    IF w = "open_raises" THEN f
    ELSE IF w = "dump_raises" THEN BrokenFile
    ELSE [exists |-> TRUE, valid |-> TRUE, data |-> JsonDump(history)]

\* save_summary, lines 109-116: the record.  r1 answers the GET of the
\* `.error` test, r2 the GET of `.title` (made only when the test found no
\* error).
summary_record(url, summary, summary_type, now, r1, r2) ==
    [url |-> url, summary |-> summary, summary_type |-> summary_type,
     timestamp |-> now,
     title |-> IF Website(r1).error = None THEN Website(r2).title
               ELSE "Unknown Title"]

\* The GETs line 115 makes.
title_fetches(r1) == IF Website(r1).error = None THEN 2 ELSE 1

Saved(history, f, fetched, w) ==
    [history |-> history, file |-> f, fetched |-> fetched,
     io |-> IF w = "written" THEN "written" ELSE "write_failed"]

\* Mutant: json.dump(summary_data) in place of json.dump(summaries_history).
save_summary_dumping_record(history, f, url, summary, summary_type, now, r1, r2, w) ==
    LET summary_data == summary_record(url, summary, summary_type, now, r1, r2)
    IN  Saved(Append(history, summary_data), WriteFile(f, <<summary_data>>, w),
              title_fetches(r1), w)

\* Mutant: an unrecognized style is stored as "short".
save_summary_defaulting_style(history, f, url, summary, summary_type, now, r1, r2, w) ==
    LET stored == IF summary_type \in RecognizedStyles THEN summary_type
                  ELSE DefaultStyle
        summary_data == summary_record(url, summary, stored, now, r1, r2)
        appended == Append(history, summary_data)
    IN  Saved(appended, WriteFile(f, appended, w), title_fetches(r1), w)

\* Mutant: summaries_history.insert(0, summary_data).
save_summary_prepending(history, f, url, summary, summary_type, now, r1, r2, w) ==
    LET summary_data == summary_record(url, summary, summary_type, now, r1, r2)
        appended == <<summary_data>> \o history
    IN  Saved(appended, WriteFile(f, appended, w), title_fetches(r1), w)

\* Mutant: one Website(url) serves both the `.error` test and `.title`.
save_summary_fetching_once(history, f, url, summary, summary_type, now, r1, r2, w) ==
    LET summary_data == summary_record(url, summary, summary_type, now, r1, r1)
        appended == Append(history, summary_data)
    IN  Saved(appended, WriteFile(f, appended, w), 1, w)

\* save_summary
save_summary(history, f, url, summary, summary_type, now, r1, r2, w) ==
    LET summary_data == summary_record(url, summary, summary_type, now, r1, r2)
        appended == Append(history, summary_data)
    IN  Saved(appended, WriteFile(f, appended, w), title_fetches(r1), w)

\* load_summaries: the file, when there is one, replaces memory; a file that
\* does not parse leaves memory empty.
load_summaries(history, f) ==
    IF f.exists
    THEN IF f.valid THEN JsonLoad(f.data) ELSE <<>>
    ELSE history

\* export_summaries
export_summaries(history, format_type) ==
    IF history = <<>>
    THEN ErrorString("No summaries to export.")
    ELSE IF format_type = "json"
    THEN <<"json", JsonDump(history)>>
    ELSE IF format_type = "markdown"
    THEN <<"# Website Summaries Export", history>>
    ELSE <<"WEBSITE SUMMARIES EXPORT", history>>

\* ------------------------------------------------------------------ state
VARIABLES
    api_key,            \* GEMINI_API_KEY is set (line 14)
    summaries_history,  \* the global list of records (line 24)
    file,               \* the backing file SUMMARIES_FILE
    clock,              \* datetime.now(): one instant per record saved
    pc,                 \* "idle", or "loop" while summarize_multiple runs
    urls,               \* summarize_multiple: the parsed URLs
    idx,                \* summarize_multiple: iterations completed
    results,            \* summarize_multiple: the sections so far
    batch_type,         \* summarize_multiple: its summary_type
    progress,           \* summarize_multiple: progress calls and sleeps made
    ret,                \* what the last handler returned
    last,               \* the last handler step: its name, its style argument,
                        \* what it did to the file, the GETs it made
    limits,             \* the bounds of the behaviour: saves and input lines
    probe               \* SpecFn: one call of summarize_website

vars == <<api_key, summaries_history, file, clock, pc, urls, idx, results,
          batch_type, progress, ret, last, limits, probe>>

store == <<summaries_history, file, clock>>
locals == <<pc, urls, idx, results, batch_type, progress>>
fixed == <<api_key, limits, probe>>

Step(op, style, io, fetched, prev) ==
    [op |-> op, style |-> style, io |-> io, fetched |-> fetched, prev |-> prev]

Limits(saves, lines) == [saves |-> saves, lines |-> lines]

Probe(key, resp, reply, summary_type, called, result) ==
    [key |-> key, resp |-> resp, reply |-> reply, summary_type |-> summary_type,
     called |-> called, result |-> result]
NoProbe ==
    Probe(FALSE, Response("raises", "absent", FALSE, 0), LLMReply(TRUE, <<>>),
          DefaultStyle, FALSE, Returned(<<>>, NoRequest, 0))

\* A record an earlier session saved, and the file that session left.
EarlierRecord ==
    [url |-> "u1", summary |-> <<"Summary">>, summary_type |-> "short",
     timestamp |-> 0, title |-> "Example"]
EarlierFile == WriteFile(AbsentFile, <<EarlierRecord>>, "written")

\* The program once started (lines 14-24 and create_ui's load_summaries).
Started(files) ==
    /\ api_key \in BOOLEAN
    /\ file \in files
    /\ summaries_history = load_summaries(<<>>, file)
    /\ clock = 1
    /\ pc = "idle"
    /\ urls = <<>>
    /\ idx = 0
    /\ results = <<>>
    /\ batch_type = DefaultStyle
    /\ progress = <<>>
    /\ ret = <<>>
    /\ last = Step("init", DefaultStyle, "none", 0, "none")

Init ==
    /\ Started({AbsentFile, EarlierFile})
    /\ limits = Limits(MaxSavesAll, MaxLinesAll)
    /\ probe = NoProbe

\* An exception no callee handles, raised inside a handler's try block: in
\* save_summary before the record is appended ("save"), or while the section
\* of a batch is built ("format").
Unexpected == {"none", "save", "format"}

\* -------------------------------------------------- process_single_summary
process_single_summary ==
    /\ pc = "idle"
    /\ \E url \in URLs \cup {""}, style \in RequestStyles :
         IF url = ""
         THEN /\ ret' = <<Glyph, "Please enter a valid URL">>
              /\ last' = Step("single", style, "none", 0, "none")
              /\ UNCHANGED store
         ELSE \E resp \in Responses, reply \in Replies :
              LET s == summarize_website(api_key, resp, reply, style)
              IN  IF s.raised
                  THEN /\ ret' = ErrorString("exception")
                       /\ last' = Step("single", style, "none", s.fetched, "none")
                       /\ UNCHANGED store
                  ELSE IF is_success(s.value)
                  THEN \E r1 \in Responses, r2 \in Responses,
                          w \in WriteOutcomes, x \in {"none", "save"} :
                       IF x = "save"
                       THEN /\ ret' = ErrorString("exception")
                            /\ last' = Step("single", style, "none", s.fetched, "none")
                            /\ UNCHANGED store
                       ELSE LET saved == save_summary(summaries_history, file, url,
                                             s.value, style, clock, r1, r2, w)
                            IN  /\ clock <= limits.saves
                                /\ summaries_history' = saved.history
                                /\ file' = saved.file
                                /\ clock' = clock + 1
                                /\ ret' = s.value
                                /\ last' = Step("single", style, saved.io,
                                                s.fetched + saved.fetched, "none")
                  ELSE /\ ret' = s.value
                       /\ last' = Step("single", style, "none", s.fetched, "none")
                       /\ UNCHANGED store
    /\ UNCHANGED <<fixed, locals>>

\* ------------------------------------------------------ summarize_multiple
\* A line of the input: a URL or nothing, with or without blanks around it.
Line(core, padded) == [core |-> core, padded |-> padded]
Lines == {Line("u1", FALSE), Line("u2", TRUE), Line("", FALSE), Line("", TRUE)}
Texts(n) == UNION {[1..k -> Lines] : k \in 0..n}

\* str.strip
Strip(line) == line.core

\* [url.strip() for url in urls_text.split('\n') if url.strip()]
RECURSIVE ParseUrls(_)
ParseUrls(text) ==
    IF text = <<>> THEN <<>>
    ELSE LET rest == ParseUrls(Tail(text))
         IN  IF Strip(Head(text)) # "" THEN <<Strip(Head(text))>> \o rest
             ELSE rest

\* urls_text.strip() is empty
Blank(text) == \A k \in 1..Len(text) : Strip(text[k]) = ""

\* A section of the output: its heading ("##" for a summary, "## (x)" for an
\* error string, "## (x) Error" for a caught exception) and its URL line.
Section(head, url) == [head |-> head, url |-> url]
Separator == Section("---", "")

\* "\n---\n".join(results)
RECURSIVE Join(_)
Join(sections) ==
    IF Len(sections) <= 1 THEN sections
    ELSE <<Head(sections), Separator>> \o Join(Tail(sections))

Event(ev, i, n) == [ev |-> ev, i |-> i, n |-> n]

summarize_multiple_begin ==
    /\ pc = "idle"
    /\ \E text \in Texts(limits.lines), style \in RequestStyles \cup {Omitted} :
         LET summary_type == IF style = Omitted THEN DefaultStyle ELSE style
         IN  IF ~api_key
             THEN /\ ret' = ErrorString("No Gemini API key found")
                  /\ last' = Step("refused", style, "none", 0, "none")
                  /\ UNCHANGED locals
             ELSE IF Blank(text)
             THEN /\ ret' = ErrorString("Please enter at least one URL.")
                  /\ last' = Step("refused", style, "none", 0, "none")
                  /\ UNCHANGED locals
             ELSE IF ParseUrls(text) = <<>>
             THEN /\ ret' = ErrorString("No valid URLs found.")
                  /\ last' = Step("refused", style, "none", 0, "none")
                  /\ UNCHANGED locals
             ELSE /\ pc' = "loop"
                  /\ urls' = ParseUrls(text)
                  /\ idx' = 0
                  /\ results' = <<>>
                  /\ batch_type' = summary_type
                  /\ progress' = <<>>
                  /\ ret' = <<>>
                  /\ last' = Step("begin", style, "none", 0, "none")
    /\ UNCHANGED <<fixed, store>>

\* Mutant: a caught exception leaves no section behind.
Iteration_dropping_caught(section, slept) ==
    /\ results' = IF section.head = "## (x) Error" THEN results
                  ELSE Append(results, section)
    /\ progress' = Append(progress, Event("progress", idx + 1, Len(urls)))

\* The loop body's three ways out (lines 159-173): each appends one section
\* and reports progress; only the two that leave the try block by its last
\* statement have slept.
Iteration(section, slept) ==
    LET total_urls == Len(urls)
        before == Append(progress, Event("progress", idx, total_urls))
        inside == IF slept THEN Append(before, Event("sleep", idx, 1))
                  ELSE before
    IN  /\ results' = Append(results, section)
        /\ progress' = Append(inside, Event("progress", idx + 1, total_urls))

\* One pass of the loop body (lines 156-173) for urls[idx + 1].
summarize_multiple_iter ==
    /\ pc = "loop"
    /\ idx < Len(urls)
    /\ LET url == urls[idx + 1]
           Caught == Section("## (x) Error", url)
       IN  \E resp \in Responses, reply \in Replies, x \in Unexpected :
           LET s == summarize_website(api_key, resp, reply, batch_type)
           IN  IF s.raised
               THEN /\ Iteration(Caught, FALSE)
                    /\ last' = Step("iter", batch_type, "none", s.fetched, "none")
                    /\ UNCHANGED store
               ELSE IF is_success(s.value)
               THEN \E r1 \in Responses, r2 \in Responses, w \in WriteOutcomes :
                    LET saved == save_summary(summaries_history, file, url,
                                     s.value, batch_type, clock, r1, r2, w)
                    IN  IF x = "save"
                        THEN /\ Iteration(Caught, FALSE)
                             /\ last' = Step("iter", batch_type, "none", s.fetched, "none")
                             /\ UNCHANGED store
                        ELSE /\ clock <= limits.saves
                             /\ summaries_history' = saved.history
                             /\ file' = saved.file
                             /\ clock' = clock + 1
                             /\ IF x = "format"
                                THEN Iteration(Caught, FALSE)
                                ELSE Iteration(Section("##", url), TRUE)
                             /\ last' = Step("iter", batch_type, saved.io,
                                             s.fetched + saved.fetched + 1, "none")
               ELSE /\ x # "save"
                    /\ IF x = "format"
                       THEN Iteration(Caught, FALSE)
                       ELSE Iteration(Section("## (x)", url), TRUE)
                    /\ last' = Step("iter", batch_type, "none", s.fetched + 1, "none")
                    /\ UNCHANGED store
    /\ idx' = idx + 1
    /\ ret' = <<>>
    /\ UNCHANGED <<fixed, pc, urls, batch_type>>

\* Line 175: the loop is over, the sections are joined and returned.
summarize_multiple_return ==
    /\ pc = "loop"
    /\ idx = Len(urls)
    /\ ret' = Join(results)
    /\ last' = Step("returned", batch_type, "none", 0, "none")
    /\ pc' = "idle"
    /\ urls' = <<>>
    /\ idx' = 0
    /\ results' = <<>>
    /\ batch_type' = DefaultStyle
    /\ progress' = <<>>
    /\ UNCHANGED <<fixed, store>>

\* -------------------------------------------------------------- export_data
Formats == {"markdown", "json", "txt"}

export_data ==
    /\ pc = "idle"
    /\ \E format_type \in Formats :
         /\ ret' = IF summaries_history = <<>>
                   THEN ErrorString("No summaries to export.")
                   ELSE export_summaries(summaries_history, format_type)
         /\ last' = Step("export", format_type, "none", 0, "none")
    /\ UNCHANGED <<fixed, store, locals>>

\* ------------------------------------------------------------ clear_history
\* Mutant: the list is emptied and the file is never removed.
clear_history_leaving_file ==
    /\ pc = "idle"
    /\ summaries_history' = <<>>
    /\ file' = file
    /\ last' = Step("clear", DefaultStyle,
                    IF file.exists THEN "removed" ELSE "no_file", 0, "none")
    /\ ret' = <<"History cleared successfully!">>
    /\ UNCHANGED <<fixed, clock, locals>>

\* os.remove either removes the file or raises (and the exception is passed).
clear_history ==
    /\ pc = "idle"
    /\ summaries_history' = <<>>
    /\ \E removal \in {"removed", "remove_raises"} :
         IF ~file.exists
         THEN /\ file' = file
              /\ last' = Step("clear", DefaultStyle, "no_file", 0, "none")
         ELSE IF removal = "removed"
         THEN /\ file' = AbsentFile
              /\ last' = Step("clear", DefaultStyle, "removed", 0, "none")
         ELSE /\ file' = file
              /\ last' = Step("clear", DefaultStyle, "remove_failed", 0, "none")
    /\ ret' = <<"History cleared successfully!">>
    /\ UNCHANGED <<fixed, clock, locals>>

\* ------------------------------------------------------------------- reload
\* load_summaries() is called again (create_ui, line 236) on the memory and
\* the file as they are.
reload ==
    /\ pc = "idle"
    /\ summaries_history' = load_summaries(summaries_history, file)
    /\ last' = Step("load", DefaultStyle,
                    IF ~file.exists THEN "no_file"
                    ELSE IF file.valid THEN "read" ELSE "parse_failed",
                    0, last.io)
    /\ ret' = <<>>
    /\ UNCHANGED <<fixed, file, clock, locals>>

\* ----------------------------------------------------------- specifications
\* The whole program.
Next ==
    \/ process_single_summary
    \/ summarize_multiple_begin
    \/ summarize_multiple_iter
    \/ summarize_multiple_return
    \/ export_data
    \/ clear_history
    \/ reload

Spec == Init /\ [][Next]_vars

\* The history store under the single-URL action, clear, export and load.
InitStore ==
    /\ Started({AbsentFile})
    /\ limits = Limits(MaxSaves, 0)
    /\ probe = NoProbe

NextStore ==
    \/ process_single_summary
    \/ export_data
    \/ clear_history
    \/ reload

SpecStore == InitStore /\ [][NextStore]_vars

\* The batch runner.
InitBatch ==
    /\ Started({AbsentFile})
    /\ limits = Limits(MaxBatchSaves, MaxLines)
    /\ probe = NoProbe

NextBatch ==
    \/ summarize_multiple_begin
    \/ summarize_multiple_iter
    \/ summarize_multiple_return

SpecBatch == InitBatch /\ [][NextBatch]_vars

\* summarize_website as a function of its inputs.
InitFn ==
    /\ Started({AbsentFile})
    /\ limits = Limits(0, 0)
    /\ \E key \in BOOLEAN, resp \in AllResponses, reply \in AllReplies,
          summary_type \in AllStyles :
         probe = Probe(key, resp, reply, summary_type, FALSE,
                       Returned(<<>>, NoRequest, 0))

call_summarize_website ==
    /\ ~probe.called
    /\ probe' = [probe EXCEPT
                   !.called = TRUE,
                   !.result = summarize_website(probe.key, probe.resp,
                                  probe.reply, probe.summary_type)]
    /\ UNCHANGED <<api_key, limits, store, locals, ret, last>>

NextFn == call_summarize_website

SpecFn == InitFn /\ [][NextFn]_vars

\* --------------------------------------------------------------- properties
\* A string that begins with the failure glyph.
IsErrorMarker(text) == Len(text) > 0 /\ Head(text) = Glyph

IsPrefix(a, b) == Len(a) <= Len(b) /\ SubSeq(b, 1, Len(a)) = a

\* The step just taken called save_summary and the record was appended.
SaveIO == {"written", "write_failed"}

\* Equal in url, summary, summary_type and timestamp.
SameFields(a, b) ==
    /\ a.url = b.url
    /\ a.summary = b.summary
    /\ a.summary_type = b.summary_type
    /\ a.timestamp = b.timestamp

IsSection(e) == e.head # Separator.head
SectionsOf(out) == SelectSeq(out, IsSection)

\* C1: a batch of N >= 1 URLs returns exactly N sections, one per URL, in the
\* order of the input; every pass of the loop, failed or not, adds the section
\* of its URL and moves on to the next one, and the loop can always go on.
C1_BatchSections ==
    /\ [](pc = "loop" => ENABLED (summarize_multiple_iter \/ summarize_multiple_return))
    /\ [][ /\ (pc = "loop" /\ pc' = "loop") =>
                /\ idx' = idx + 1
                /\ Len(results') = idx'
                /\ results'[idx'].url = urls[idx']
                /\ SubSeq(results', 1, idx) = results
           /\ (pc = "loop" /\ pc' = "idle") =>
                LET out == SectionsOf(ret')
                IN  /\ Len(urls) >= 1
                    /\ Len(out) = Len(urls)
                    /\ \A k \in 1..Len(urls) : out[k].url = urls[k]
         ]_vars

\* C1 witness: a batch returned two sections, the first a caught exception,
\* the second the summary of the next URL.
C1_Witness ==
    /\ last.op = "returned"
    /\ Len(ret) = 3
    /\ ret[1] = Section("## (x) Error", "u1")
    /\ ret[3] = Section("##", "u2")

\* C2: no record in memory and no record in the backing file has a summary
\* that begins with the failure glyph.
C2_NoErrorMarkerSaved ==
    /\ \A k \in 1..Len(summaries_history) :
         ~IsErrorMarker(summaries_history[k].summary)
    /\ file.valid =>
         \A k \in 1..Len(file.data) : ~IsErrorMarker(file.data[k].summary.value)

\* C2 witness: the single-URL action got a reply that begins with the glyph,
\* returned it, and the history (which holds records) did not take it.
C2_Witness ==
    /\ last.op = "single"
    /\ ret = <<Glyph, "Summary">>
    /\ Len(summaries_history) = 2
    /\ file.valid /\ Len(file.data) = 2

\* C3 as stated: after save_summary, load_summaries yields a
\* history holding a record equal to the saved one in url, summary,
\* summary_type and timestamp.
C3_AppendThenLoad ==
    [][ (last.io \in SaveIO /\ last'.op = "load") =>
          \E k \in 1..Len(summaries_history') :
             SameFields(summaries_history'[k], Last(summaries_history))
      ]_vars

\* C3 amended: when save_summary's write of the file succeeded, the file
\* decodes to the history in memory and load_summaries yields
\* that history, the saved record in it.
C3_AppendThenLoadWritten ==
    [][ (last.io = "written" /\ last'.op = "load") =>
          /\ file.exists /\ file.valid
          /\ JsonLoad(file.data) = summaries_history
          /\ summaries_history' = summaries_history
          /\ \E k \in 1..Len(summaries_history') :
                SameFields(summaries_history'[k], Last(summaries_history))
      ]_vars

\* C3 witness: load_summaries right after a save whose write succeeded, with
\* two records loaded.
C3_Witness ==
    /\ last.op = "load"
    /\ last.prev = "written"
    /\ Len(summaries_history) = 2

\* C4 as stated: clear_history returns normally with the list empty, and a
\* load_summaries after it yields an empty history.
C4_ClearThenLoad ==
    [][ /\ last'.op = "clear" =>
             /\ ret' = <<"History cleared successfully!">>
             /\ summaries_history' = <<>>
        /\ (last.op = "clear" /\ last'.op = "load") =>
             summaries_history' = <<>>
      ]_vars

\* C4 amended: clear_history returns normally with the list empty whatever
\* os.remove does; load_summaries after it yields an empty
\* history when there was no file or the file was removed.
C4_ClearThenLoadRemoved ==
    [][ /\ last'.op = "clear" =>
             /\ ret' = <<"History cleared successfully!">>
             /\ summaries_history' = <<>>
        /\ (last.op = "clear" /\ last.io \in {"no_file", "removed"}
               /\ last'.op = "load") =>
             summaries_history' = <<>>
      ]_vars

\* C4 witness: load_summaries after a clear that removed the file of a
\* history that held records; nothing is loaded.
C4_Witness ==
    /\ last.op = "load"
    /\ last.prev = "removed"
    /\ summaries_history = <<>>
    /\ clock > 1

\* C5: summarize_website never raises; on every failure on its path it
\* returns a string that begins with the glyph; a string without the glyph
\* means the key, the fetch, the extraction and the LLM call all succeeded.
C5_Failure ==
    \/ ~probe.key
    \/ probe.resp.get = "raises"
    \/ ~probe.resp.has_body
    \/ probe.resp.text_len = 0
    \/ probe.reply.raises

C5_NeverRaises ==
    probe.called =>
        /\ ~probe.result.raised
        /\ C5_Failure => IsErrorMarker(probe.result.value)
        /\ ~IsErrorMarker(probe.result.value) =>
              /\ ~C5_Failure
              /\ probe.result.value = probe.reply.text

\* C5 witness: the page was fetched and had text, the LLM call raised, and
\* the call returned an error string.
C5_Witness ==
    /\ probe.called
    /\ probe.key
    /\ probe.resp.get = "ok" /\ probe.resp.has_body /\ probe.resp.text_len > 0
    /\ probe.reply.raises
    /\ IsErrorMarker(probe.result.value)

\* C6: every request summarize_website sends to the LLM starts from an empty
\* history and carries the user prompt and the system instruction
\* create_system_prompt gives for the style.
C6_RequestCarriesSystemPrompt ==
    (probe.called /\ probe.result.sent # NoRequest) =>
        /\ probe.result.sent.history = <<>>
        /\ probe.result.sent.message = user_prompt(Website(probe.resp))
        /\ probe.result.sent.system_instruction =
              create_system_prompt(probe.summary_type)

C8_OnlyClearRemoves ==
    [][ last'.op # "clear" =>
          IsPrefix(summaries_history, summaries_history') ]_vars

\* C8 amended: the single-URL action, the batch runner and the export leave
\* the history they found as a prefix of the history they leave; a
\* load_summaries leaves the history as it was when the file is absent or
\* mirrors it.
C8_PrefixKept ==
    [][ /\ last'.op \notin {"clear", "load"} =>
             IsPrefix(summaries_history, summaries_history')
        /\ (last'.op = "load"
               /\ (file.exists => (file.valid /\ JsonLoad(file.data) = summaries_history))) =>
             summaries_history' = summaries_history
      ]_vars

\* C8 witness: the record of the earlier session is still first after a
\* second record was saved behind it and load_summaries ran.
C8_Witness ==
    /\ last.op = "load"
    /\ Len(summaries_history) = 2
    /\ summaries_history[1] = EarlierRecord

\* C9: every completed pass of the loop reported idx/total, then slept, then
\* reported (idx+1)/total.
C9_DelayEveryIteration ==
    \A i \in 0..(idx - 1) :
        \E a, b, c \in 1..Len(progress) :
            /\ a < b /\ b < c
            /\ progress[a] = Event("progress", i, Len(urls))
            /\ progress[b] = Event("sleep", i, 1)
            /\ progress[c] = Event("progress", i + 1, Len(urls))

\* C10 as stated: the single-URL action that saves a record fetched the URL
\* exactly twice.
C10_TwoFetches ==
    [][ (last'.op = "single" /\ last'.io \in SaveIO) => last'.fetched = 2 ]_vars

\* C10 amended: the single-URL action that saves a record fetched the URL two
\* or three times, and three times whenever the title it saved is the page's.
C10_TwoOrThreeFetches ==
    [][ (last'.op = "single" /\ last'.io \in SaveIO) =>
          /\ last'.fetched \in {2, 3}
          /\ Last(summaries_history').title # "Unknown Title" =>
                last'.fetched = 3
      ]_vars

\* C10 witness: a record saved by the single-URL action with the page's
\* title, after three GETs.
C10_Witness ==
    /\ last.op = "single"
    /\ last.io \in SaveIO
    /\ last.fetched = 3
    /\ Last(summaries_history).title = "Example"

====
